---- MODULE Spec2Model ----
(***************************************************************************)
(* Model of models/pnn.py: the constructor PNN.__init__ and PNN.forward,   *)
(* statement by statement.  Tensors are modelled by their shapes; a 2-D    *)
(* tensor keeps the ordered list of the column blocks it was concatenated  *)
(* from, so that both widths and the order of concatenation are visible.   *)
(***************************************************************************)
EXTENDS Integers, Sequences, FiniteSets, TLC

\* ---------------------------------------------------------------- bounds
MaxFields == 2      \* sparse feature fields in dnn_feature_columns: 0..MaxFields
MaxEmb == 2         \* embedding size: 1..MaxEmb
MaxDense == 1       \* total width of the dense feature columns: 0..MaxDense
MaxBatch == 2       \* rows of an input batch: 1..MaxBatch
MaxLayers == 1      \* len(dnn_hidden_units): 0..MaxLayers
MaxUnits == 2       \* units of one hidden layer: 1..MaxUnits
MaxCalls == 2       \* forward calls made on one model

VARIABLES pc, args, self, product_out_dim, num_inputs, num_pairs,
          regularization_weight, raised, X, loc, trace, outcome, calls

vars == <<pc, args, self, product_out_dim, num_inputs, num_pairs,
          regularization_weight, raised, X, loc, trace, outcome, calls>>

\* ------------------------------------------------------------ input sets
\* 'metatrans' as a sequence of characters
metatrans == <<"m", "e", "t", "a", "t", "r", "a", "n", "s">>

\* flag=None (the default of the parameter) or a string
NoFlag == [none |-> TRUE, s |-> <<>>]

StrFlag(s) == [none |-> FALSE, s |-> s]

Flags == {NoFlag,
          StrFlag(<<>>),
          StrFlag(metatrans),
          StrFlag(<<"x", "_">> \o metatrans),
          StrFlag(<<"m", "e", "t", "a">>)}

KernelTypes == {"mat", "vec", "num", "other"}

Tasks == {"binary", "regression"}

RECURSIVE SeqsUpTo(_, _)
SeqsUpTo(S, n) ==
    IF n = 0 THEN {<<>>}
    ELSE LET shorter == SeqsUpTo(S, n - 1)
         IN  shorter \cup {Append(q, u) : q \in {r \in shorter : Len(r) = n - 1}, u \in S}

HiddenUnits == SeqsUpTo(1..MaxUnits, MaxLayers)

\* dnn_feature_columns: n sparse fields of embedding size e, dense columns
\* of total width d
FeatureColumns == [n : 0..MaxFields, e : 1..MaxEmb, d : 0..MaxDense]

\* --------------------------------------------------------------- helpers
\* Python's `needle in s` for strings: needle is a contiguous slice of s
IsSubstr(needle, s) ==
    \E i \in 0..(Len(s) - Len(needle)) :
        \A k \in 1..Len(needle) : s[i + k] = needle[k]

RECURSIVE SumWidth(_)
SumWidth(blocks) ==
    IF blocks = <<>> THEN 0 ELSE Head(blocks).width + SumWidth(Tail(blocks))

Block(src, w) == [src |-> src, width |-> w]

\* BaseModel.__init__ keeps the flag it is given
BaseModelFlag(flag) == flag

\* BaseModel.compute_input_dim
compute_input_dim(cols, include_dense, feature_group) ==
    (IF feature_group THEN cols.n ELSE cols.n * cols.e)
    + (IF include_dense THEN cols.d ELSE 0)

\* BaseModel.input_from_feature_columns: one (B, 1, e) tensor per sparse
\* field, and the dense values
input_from_feature_columns(B, cols) ==
    [sparse |-> [count |-> cols.n, shape |-> <<B, 1, cols.e>>], dense |-> cols.d]

\* torch.cat(dim=1) of the list, meta_transformation, split(1, dim=1)
meta_transformation(emb) == emb

\* the pairs (i, j), i < j, the product layers enumerate
PairCount(n) == Cardinality({p \in (1..n) \X (1..n) : p[1] < p[2]})

\* flatten(concat_fun(list), start_dim=1): columns of (B, n*e)
LinearSignal(emb) == <<Block("linear", emb.count * emb.shape[3])>>

\* flatten(InnerProductLayer(list), start_dim=1): columns of (B, pairs)
InnerProduct(emb) == <<Block("inner", PairCount(emb.count))>>

\* OutterProductLayer(list): columns of (B, pairs)
OuterProduct(emb) == <<Block("outer", PairCount(emb.count))>>

\* combined_dnn_input([product_layer], dense_value_list)
combined_dnn_input(product_layer, dense) ==
    IF dense = 0 THEN product_layer ELSE product_layer \o <<Block("dense", dense)>>

IsSupportedKernelNoNum(kernel_type) == kernel_type \in {"mat", "vec"}

\* line 39: kernel_type in ['mat', 'vec', 'num']
IsSupportedKernel(kernel_type) == kernel_type \in {"mat", "vec", "num"}

NumPairsPlus(n) == (n * (n + 1)) \div 2

\* line 49: int(num_inputs * (num_inputs - 1) / 2)
NumPairs(n) == (n * (n - 1)) \div 2

ProductLayerSwapped(use_inner, use_outter, linear_signal, inner_product, outer_product) ==
    IF use_outter /\ use_inner THEN linear_signal \o outer_product \o inner_product
    ELSE IF use_outter THEN linear_signal \o outer_product
    ELSE IF use_inner THEN linear_signal \o inner_product
    ELSE linear_signal

\* lines 93-101: the four-way choice of what is concatenated
ProductLayer(use_inner, use_outter, linear_signal, inner_product, outer_product) ==
    IF use_outter /\ use_inner THEN linear_signal \o inner_product \o outer_product
    ELSE IF use_outter THEN linear_signal \o outer_product
    ELSE IF use_inner THEN linear_signal \o inner_product
    ELSE linear_signal

Has(f, k) == k \in DOMAIN f

NoArgs == [dnn_feature_columns |-> [n |-> 0, e |-> 1, d |-> 0],
           dnn_hidden_units |-> <<>>, use_inner |-> FALSE, use_outter |-> FALSE,
           kernel_type |-> "mat", task |-> "binary", flag |-> NoFlag]

Empty == [k \in {} |-> 0]

\* ------------------------------------------------------------------ Init
Init ==
    /\ pc = "new"
    /\ args = NoArgs
    /\ self = Empty
    /\ product_out_dim = 0
    /\ num_inputs = 0
    /\ num_pairs = 0
    /\ regularization_weight = <<>>
    /\ raised = "none"
    /\ X = 0
    /\ loc = Empty
    /\ trace = <<>>
    /\ outcome = "none"
    /\ calls = 0

ctorLocals == <<product_out_dim, num_inputs, num_pairs>>
fwdVars == <<X, loc, trace, outcome, calls>>

\* ----------------------------------------------------------- __init__
\* PNN(dnn_feature_columns, dnn_hidden_units, ..., flag=...)
init_call ==
    /\ pc = "new"
    /\ \E cols \in FeatureColumns, hidden \in HiddenUnits, ui \in BOOLEAN, uo \in BOOLEAN,
          kt \in KernelTypes, task \in Tasks, flag \in Flags :
          args' = [dnn_feature_columns |-> cols, dnn_hidden_units |-> hidden,
                   use_inner |-> ui, use_outter |-> uo, kernel_type |-> kt,
                   task |-> task, flag |-> flag]
    /\ pc' = "L35"
    /\ UNCHANGED <<self, ctorLocals, regularization_weight, raised, fwdVars>>

\* lines 35-37: super().__init__(...)
init_super ==
    /\ pc = "L35"
    /\ self' = ("flag" :> BaseModelFlag(args.flag))
               @@ ("embedding_size" :> args.dnn_feature_columns.e)
               @@ ("dnn_feature_columns" :> args.dnn_feature_columns)
    /\ pc' = "L39"
    /\ UNCHANGED <<args, ctorLocals, regularization_weight, raised, fwdVars>>

init_check_kernel_type_late ==
    /\ pc = "L39"
    /\ IF ~IsSupportedKernel(args.kernel_type)
       THEN /\ raised' = "ValueError"
            /\ pc' = "init_raised"
            /\ self' = ("use_inner" :> args.use_inner) @@ ("use_outter" :> args.use_outter)
                       @@ ("kernel_type" :> args.kernel_type) @@ self
       ELSE /\ pc' = "L42"
            /\ UNCHANGED <<raised, self>>
    /\ UNCHANGED <<args, ctorLocals, regularization_weight, fwdVars>>

\* lines 39-40: the kernel type check
init_check_kernel_type ==
    /\ pc = "L39"
    /\ IF ~IsSupportedKernel(args.kernel_type)
       THEN /\ raised' = "ValueError"
            /\ pc' = "init_raised"
       ELSE /\ raised' = raised
            /\ pc' = "L42"
    /\ UNCHANGED <<args, self, ctorLocals, regularization_weight, fwdVars>>

\* lines 42-45
init_store_config ==
    /\ pc = "L42"
    /\ self' = ("use_inner" :> args.use_inner) @@ ("use_outter" :> args.use_outter)
               @@ ("kernel_type" :> args.kernel_type) @@ ("task" :> args.task) @@ self
    /\ pc' = "L47"
    /\ UNCHANGED <<args, ctorLocals, regularization_weight, raised, fwdVars>>

\* lines 47-49
init_dims ==
    /\ pc = "L47"
    /\ product_out_dim' = 0
    /\ num_inputs' = compute_input_dim(args.dnn_feature_columns, FALSE, TRUE)
    /\ num_pairs' = NumPairs(num_inputs')
    /\ pc' = "L51"
    /\ UNCHANGED <<args, self, regularization_weight, raised, fwdVars>>

init_innerproduct_wrong_guard ==
    /\ pc = "L51"
    /\ IF self["use_outter"]
       THEN /\ product_out_dim' = product_out_dim + num_pairs
            /\ self' = ("innerproduct" :> [layer |-> "InnerProductLayer"]) @@ self
       ELSE UNCHANGED <<product_out_dim, self>>
    /\ pc' = "L55"
    /\ UNCHANGED <<args, num_inputs, num_pairs, regularization_weight, raised, fwdVars>>

\* lines 51-53
init_innerproduct ==
    /\ pc = "L51"
    /\ IF self["use_inner"]
       THEN /\ product_out_dim' = product_out_dim + num_pairs
            /\ self' = ("innerproduct" :> [layer |-> "InnerProductLayer"]) @@ self
       ELSE UNCHANGED <<product_out_dim, self>>
    /\ pc' = "L55"
    /\ UNCHANGED <<args, num_inputs, num_pairs, regularization_weight, raised, fwdVars>>

\* lines 55-58
init_outterproduct ==
    /\ pc = "L55"
    /\ IF self["use_outter"]
       THEN /\ product_out_dim' = product_out_dim + num_pairs
            /\ self' = ("outterproduct" :>
                           [layer |-> "OutterProductLayer", num_inputs |-> num_inputs,
                            embedding_size |-> self["embedding_size"],
                            kernel_type |-> args.kernel_type]) @@ self
       ELSE UNCHANGED <<product_out_dim, self>>
    /\ pc' = "L60"
    /\ UNCHANGED <<args, num_inputs, num_pairs, regularization_weight, raised, fwdVars>>

\* lines 60-62
init_dnn ==
    /\ pc = "L60"
    /\ self' = ("dnn" :>
                   [layer |-> "DNN",
                    inputs_dim |-> product_out_dim
                                   + compute_input_dim(args.dnn_feature_columns, TRUE, FALSE),
                    hidden_units |-> args.dnn_hidden_units]) @@ self
    /\ pc' = "L64"
    /\ UNCHANGED <<args, ctorLocals, regularization_weight, raised, fwdVars>>

\* lines 64-65: dnn_hidden_units[-1] of an empty sequence is an IndexError
init_dnn_linear ==
    /\ pc = "L64"
    /\ IF Len(args.dnn_hidden_units) = 0
       THEN /\ raised' = "IndexError"
            /\ pc' = "init_raised"
            /\ self' = self
       ELSE /\ self' = ("dnn_linear" :>
                           [layer |-> "Linear",
                            in_features |->
                                args.dnn_hidden_units[Len(args.dnn_hidden_units)],
                            out_features |-> 1]) @@ self
            /\ pc' = "L66"
            /\ raised' = raised
    /\ UNCHANGED <<args, ctorLocals, regularization_weight, fwdVars>>

\* lines 66-68
init_regularization ==
    /\ pc = "L66"
    /\ regularization_weight' = regularization_weight \o <<"dnn", "dnn_linear">>
    /\ pc' = "L70"
    /\ UNCHANGED <<args, self, ctorLocals, raised, fwdVars>>

\* line 70: self.to(device); the constructor returns the model
init_to_device ==
    /\ pc = "L70"
    /\ pc' = "ready"
    /\ UNCHANGED <<args, self, ctorLocals, regularization_weight, raised, fwdVars>>

ctorVars == <<args, self, ctorLocals, regularization_weight, raised>>

Tensor(B, blocks) == [rows |-> B, cols |-> blocks]

\* ------------------------------------------------------------- forward
\* model(X) on a constructed model, X a batch of B rows
forward_call ==
    /\ pc = "ready"
    /\ calls < MaxCalls
    /\ \E B \in 1..MaxBatch : X' = B
    /\ loc' = Empty
    /\ trace' = <<>>
    /\ outcome' = "running"
    /\ calls' = calls + 1
    /\ pc' = "L74"
    /\ UNCHANGED ctorVars

\* lines 74-75
forward_embedding ==
    /\ pc = "L74"
    /\ LET got == input_from_feature_columns(X, self["dnn_feature_columns"])
       IN  loc' = ("sparse_embedding_list" :> got.sparse)
                  @@ ("dense_value_list" :> got.dense) @@ loc
    /\ trace' = Append(trace, "embedding")
    /\ pc' = "L77"
    /\ UNCHANGED <<ctorVars, X, outcome, calls>>

\* lines 77-80: `'metatrans' in self.flag` is a TypeError when self.flag is None
forward_metatrans ==
    /\ pc = "L77"
    /\ IF self["flag"].none
       THEN /\ outcome' = "TypeError"
            /\ pc' = "ready"
            /\ UNCHANGED <<loc, trace>>
       ELSE /\ IF IsSubstr(metatrans, self["flag"].s)
               THEN /\ loc' = ("sparse_input" :> loc["sparse_embedding_list"])
                              @@ ("sparse_embedding_list" :>
                                      meta_transformation(loc["sparse_embedding_list"]))
                              @@ loc
                    /\ trace' = Append(trace, "meta")
               ELSE UNCHANGED <<loc, trace>>
            /\ pc' = "L83"
            /\ outcome' = outcome
    /\ UNCHANGED <<ctorVars, X, calls>>

\* lines 83-84
forward_linear_signal ==
    /\ pc = "L83"
    /\ loc' = ("linear_signal" :> Tensor(X, LinearSignal(loc["sparse_embedding_list"])))
              @@ loc
    /\ pc' = "L86"
    /\ UNCHANGED <<ctorVars, X, trace, outcome, calls>>

\* lines 86-88: self.innerproduct is an AttributeError if it was never created
forward_innerproduct ==
    /\ pc = "L86"
    /\ IF self["use_inner"]
       THEN IF Has(self, "innerproduct")
            THEN /\ loc' = ("inner_product" :>
                               Tensor(X, InnerProduct(loc["sparse_embedding_list"])))
                           @@ loc
                 /\ pc' = "L90"
                 /\ outcome' = outcome
            ELSE /\ outcome' = "AttributeError"
                 /\ pc' = "ready"
                 /\ loc' = loc
       ELSE /\ pc' = "L90"
            /\ UNCHANGED <<loc, outcome>>
    /\ UNCHANGED <<ctorVars, X, trace, calls>>

\* lines 90-91
forward_outterproduct ==
    /\ pc = "L90"
    /\ IF self["use_outter"]
       THEN IF Has(self, "outterproduct")
            THEN /\ loc' = ("outer_product" :>
                               Tensor(X, OuterProduct(loc["sparse_embedding_list"])))
                           @@ loc
                 /\ pc' = "L93"
                 /\ outcome' = outcome
            ELSE /\ outcome' = "AttributeError"
                 /\ pc' = "ready"
                 /\ loc' = loc
       ELSE /\ pc' = "L93"
            /\ UNCHANGED <<loc, outcome>>
    /\ UNCHANGED <<ctorVars, X, trace, calls>>

\* the locals the chosen branch of lines 93-101 reads
ProductLayerReads ==
    {"linear_signal"}
    \cup (IF self["use_inner"] THEN {"inner_product"} ELSE {})
    \cup (IF self["use_outter"] THEN {"outer_product"} ELSE {})

Cols(name) == IF Has(loc, name) THEN loc[name].cols ELSE <<>>

forward_product_layer_use_inner_cleared ==
    /\ pc = "L93"
    /\ loc' = ("product_layer" :> Tensor(X, Cols("linear_signal"))) @@ loc
    /\ self' = ("use_inner" :> FALSE) @@ self
    /\ trace' = Append(trace, "concat")
    /\ pc' = "L103"
    /\ UNCHANGED <<args, ctorLocals, regularization_weight, raised, X, outcome, calls>>

\* lines 93-101: reading a local no branch assigned is an UnboundLocalError
forward_product_layer ==
    /\ pc = "L93"
    /\ IF ProductLayerReads \subseteq DOMAIN loc
       THEN /\ loc' = ("product_layer" :>
                          Tensor(X, ProductLayer(self["use_inner"], self["use_outter"],
                                                 Cols("linear_signal"),
                                                 Cols("inner_product"),
                                                 Cols("outer_product")))) @@ loc
            /\ trace' = Append(trace, "concat")
            /\ pc' = "L103"
            /\ outcome' = outcome
       ELSE /\ outcome' = "UnboundLocalError"
            /\ pc' = "ready"
            /\ UNCHANGED <<loc, trace>>
    /\ UNCHANGED <<ctorVars, X, calls>>

\* line 103
forward_dnn_input ==
    /\ pc = "L103"
    /\ loc' = ("dnn_input" :>
                  Tensor(X, combined_dnn_input(loc["product_layer"].cols,
                                               loc["dense_value_list"]))) @@ loc
    /\ pc' = "L104"
    /\ UNCHANGED <<ctorVars, X, trace, outcome, calls>>

\* line 104: the first layer of self.dnn multiplies a (B, w) input by an
\* (inputs_dim, h) weight, a RuntimeError unless w = inputs_dim
forward_dnn ==
    /\ pc = "L104"
    /\ IF SumWidth(loc["dnn_input"].cols) = self["dnn"].inputs_dim
       THEN /\ LET h == self["dnn"].hidden_units
               IN  loc' = ("dnn_output" :> Tensor(X, <<Block("dnn", h[Len(h)])>>)) @@ loc
            /\ trace' = Append(trace, "dnn")
            /\ pc' = "L105"
            /\ outcome' = outcome
       ELSE /\ outcome' = "RuntimeError"
            /\ pc' = "ready"
            /\ UNCHANGED <<loc, trace>>
    /\ UNCHANGED <<ctorVars, X, calls>>

\* lines 105-106
forward_dnn_linear ==
    /\ pc = "L105"
    /\ IF SumWidth(loc["dnn_output"].cols) = self["dnn_linear"].in_features
       THEN /\ loc' = ("logit" :>
                          Tensor(X, <<Block("logit", self["dnn_linear"].out_features)>>))
                      @@ loc
            /\ trace' = Append(trace, "linear")
            /\ pc' = "L108"
            /\ outcome' = outcome
       ELSE /\ outcome' = "RuntimeError"
            /\ pc' = "ready"
            /\ UNCHANGED <<loc, trace>>
    /\ UNCHANGED <<ctorVars, X, calls>>

\* line 108: self.out keeps the shape of the logit
forward_out ==
    /\ pc = "L108"
    /\ loc' = ("y_pred" :> loc["logit"]) @@ loc
    /\ trace' = Append(trace, "activation")
    /\ pc' = "L110"
    /\ UNCHANGED <<ctorVars, X, outcome, calls>>

\* line 110
forward_return ==
    /\ pc = "L110"
    /\ outcome' = "returned"
    /\ pc' = "ready"
    /\ UNCHANGED <<ctorVars, X, loc, trace, calls>>

Next ==
    \/ init_call
    \/ init_super
    \/ init_check_kernel_type
    \/ init_store_config
    \/ init_dims
    \/ init_innerproduct
    \/ init_outterproduct
    \/ init_dnn
    \/ init_dnn_linear
    \/ init_regularization
    \/ init_to_device
    \/ forward_call
    \/ forward_embedding
    \/ forward_metatrans
    \/ forward_linear_signal
    \/ forward_innerproduct
    \/ forward_outterproduct
    \/ forward_product_layer
    \/ forward_dnn_input
    \/ forward_dnn
    \/ forward_dnn_linear
    \/ forward_out
    \/ forward_return

Spec == Init /\ [][Next]_vars

\* ------------------------------------------------------------ properties
InitPcs == {"L35", "L39", "L42", "L47", "L51", "L55", "L60", "L64", "L66", "L70"}

ForwardPcs == {"L74", "L77", "L83", "L86", "L90", "L93", "L103", "L104", "L105", "L108",
               "L110"}

\* the constructor has returned a model
Constructed == pc \in {"ready"} \cup ForwardPcs

\* a forward call has ended, by returning or by raising
ForwardEnded == pc = "ready" /\ calls > 0

Toggles == (IF args.use_inner THEN 1 ELSE 0) + (IF args.use_outter THEN 1 ELSE 0)

BlockNames(blocks) == [i \in 1..Len(blocks) |-> blocks[i].src]

IsPrefix(s, t) == Len(s) <= Len(t) /\ \A i \in 1..Len(s) : s[i] = t[i]

\* C1: once the kernel type check has run, the constructor has raised
\* ValueError exactly when kernel_type is none of 'mat', 'vec', 'num',
\* whatever use_inner and use_outter are.
C1_KernelTypeRejectedIffUnsupported ==
    (pc \notin {"new", "L35", "L39"}) =>
        ((raised = "ValueError") <=> (args.kernel_type \notin {"mat", "vec", "num"}))

C1_Witness ==
    /\ pc = "init_raised"
    /\ raised = "ValueError"
    /\ ~args.use_outter
    /\ args.kernel_type = "other"

\* C2: every forward call on a constructed model returns a prediction with
\* as many rows as the batch and exactly one column.
C2_ForwardReturnsBatchByOne ==
    ForwardEnded =>
        /\ outcome = "returned"
        /\ Has(loc, "y_pred")
        /\ loc["y_pred"].rows = X
        /\ SumWidth(loc["y_pred"].cols) = 1

\* C3: with a supported kernel_type and an empty dnn_hidden_units the
\* constructor does not end in an error.
C3_EmptyHiddenUnitsAccepted ==
    (args.kernel_type \in {"mat", "vec", "num"} /\ args.dnn_hidden_units = <<>>) =>
        pc # "init_raised"

\* the stages of one forward call of a model built with the given flag
ExpectedStages(flag) ==
    <<"embedding">>
    \o (IF ~flag.none /\ IsSubstr(metatrans, flag.s) THEN <<"meta">> ELSE <<>>)
    \o <<"concat", "dnn", "linear", "activation">>

\* C4: the stages of a forward call run in the order embedding, optional
\* meta-transformation, concatenation, dense network, linear output,
\* activation, each once, the meta-transformation exactly when the flag the
\* constructor was given contains 'metatrans' (skipped when none was given),
\* and the call then returns.
C4_StagesInOrderThenReturn ==
    /\ IsPrefix(trace, ExpectedStages(args.flag))
    /\ ForwardEnded => (outcome = "returned" /\ trace = ExpectedStages(args.flag))

ConfigKeys == {"use_inner", "use_outter", "kernel_type", "task",
               "innerproduct", "outterproduct", "dnn", "dnn_linear"}

ConfigOf(obj) == [k \in (DOMAIN obj) \cap ConfigKeys |-> obj[k]]

\* C5: no step of a forward call (its call and return included) changes
\* use_inner, use_outter, kernel_type, task or the sub-layers innerproduct,
\* outterproduct, dnn, dnn_linear of the model.
C5_ForwardKeepsConfig ==
    [][Constructed => ConfigOf(self') = ConfigOf(self)]_vars

C5_Witness ==
    /\ ForwardEnded
    /\ calls >= 2
    /\ outcome = "returned"
    /\ ConfigOf(self) = [use_inner |-> TRUE, use_outter |-> TRUE, kernel_type |-> "vec",
                         task |-> "regression",
                         innerproduct |-> [layer |-> "InnerProductLayer"],
                         outterproduct |-> [layer |-> "OutterProductLayer", num_inputs |-> 2,
                                            embedding_size |-> 2, kernel_type |-> "vec"],
                         dnn |-> [layer |-> "DNN", inputs_dim |-> 7, hidden_units |-> <<2>>],
                         dnn_linear |-> [layer |-> "Linear", in_features |-> 2,
                                         out_features |-> 1]]

\* C6: the product layer is the linear signal, then the inner-product term
\* iff use_inner, then the outer-product term iff use_outter, in that order.
C6_ProductLayerOrder ==
    Has(loc, "product_layer") =>
        /\ BlockNames(loc["product_layer"].cols) =
               <<"linear">>
               \o (IF args.use_inner THEN <<"inner">> ELSE <<>>)
               \o (IF args.use_outter THEN <<"outer">> ELSE <<>>)
        /\ loc["product_layer"].cols[1] = loc["linear_signal"].cols[1]

C6_Witness ==
    /\ Has(loc, "product_layer")
    /\ args.use_inner
    /\ args.use_outter
    /\ Len(loc["product_layer"].cols) = 3

C8_ProductLayersExistWhenUsed ==
    /\ Constructed =>
           /\ Has(self, "innerproduct") <=> args.use_inner
           /\ Has(self, "outterproduct") <=> args.use_outter
    /\ outcome \notin {"AttributeError", "UnboundLocalError"}
    /\ Has(loc, "inner_product") => Has(self, "innerproduct")
    /\ Has(loc, "outer_product") => Has(self, "outterproduct")
    /\ Has(loc, "product_layer") =>
           \A i \in 1..Len(loc["product_layer"].cols) :
               LET b == loc["product_layer"].cols[i]
               IN  /\ b.src = "inner" => Has(loc, "inner_product")
                   /\ b.src = "outer" => Has(loc, "outer_product")

C8_Witness ==
    /\ Has(loc, "product_layer")
    /\ args.use_inner
    /\ ~args.use_outter
    /\ Has(loc, "inner_product")
    /\ ~Has(loc, "outer_product")

\* C9: when the constructor has raised ValueError, only the base class
\* initialisation has run: no layer of this file exists, no regularization
\* weight of the dense network is registered, and use_inner, use_outter and
\* kernel_type are not stored.
C9_RejectedBeforeAnyLayer ==
    raised = "ValueError" =>
        /\ Has(self, "flag") /\ Has(self, "embedding_size")
        /\ (DOMAIN self) \cap ConfigKeys = {}
        /\ regularization_weight = <<>>

C9_Witness ==
    /\ raised = "ValueError"
    /\ args.use_inner
    /\ args.use_outter
    /\ args.dnn_hidden_units # <<>>

====
